---- MODULE Spec2Model ----
(***************************************************************************)
(* A state-machine model of interpret/glassbox/ebm/internal.py: the two    *)
(* session wrappers around the native EBM engine (NativeEBMTraining,       *)
(* NativeEBMInteraction) and the two helpers that drive them               *)
(* (NativeHelper.cyclic_gradient_boost, NativeHelper.get_interactions),    *)
(* with the log callback (Native._set_logging) and the copying of engine   *)
(* tensors (Native.make_ndarray).                                          *)
(*                                                                         *)
(* The native engine is a black box.  Every engine call is one step of     *)
(* the model; what the engine answers (a null or non-null pointer, a zero  *)
(* or nonzero status, the validation metric, the interaction score) is     *)
(* chosen by the environment.  Metrics are the source's floats scaled by   *)
(* 1000 (1.0 is 1000, 0.995 is 995, a tolerance of 0.01 is 10); NaN is     *)
(* not modelled.  Feature and combination indexes are zero-based as in     *)
(* the source; TLA+ sequences are one-based, so index k is element k+1.    *)
(***************************************************************************)
EXTENDS Integers, Sequences, FiniteSets, TLC

(***************************************************************************)
(* Bounds of the model.                                                    *)
(***************************************************************************)
MaxRounds == 4
MaxCombos == 2
MaxStepEpisodes == 2
MaxClasses == 3
MaxCandidates == 2
MaxClientCalls == 2
MaxRanked == 5
MaxLogCalls == 2

(***************************************************************************)
(* Input domains.                                                          *)
(***************************************************************************)
\* np.inf (min_metric and bp_metric start there): above every finite
\* metric below, and absorbing under addition (MetricAdd).
Inf == 1000000
MetricValues == {994, 995, 1000}
Tolerances == {-1, 0, 10}
RunLengths == {-1, 0, 1, 2}
ScoreValues == {1, 2, 5, 9}
ModelTypes == {"regression", "classification", "multilabel"}

\* The metrics the engine writes on successive ApplyModelFeatureCombination-
\* Update calls, repeated cyclically.
MetricScripts == {<<a, b, c, d>> : a \in MetricValues, b \in MetricValues,
                                   c \in MetricValues, d \in MetricValues}
ScenarioScript == <<1000, 995, 994, 994>>
FewScripts == {ScenarioScript, <<994, 1000, 995, 994>>}

Feature(t, b) == [type |-> t, has_missing |-> FALSE, n_bins |-> b]
FeaturesA == <<Feature("continuous", 3), Feature("categorical", 4)>>
FeaturesB == <<Feature("categorical", 2), Feature("continuous", 5)>>
FeaturesBad == <<Feature("continuous", 3), Feature("text", 4)>>

Combination(attrs) == [attributes |-> attrs]
AllCombinations == <<Combination(<<0>>), Combination(<<1>>),
                     Combination(<<0, 1>>), Combination(<<1, 0>>),
                     Combination(<<1, 1>>)>>
AllCandidates == <<<<0, 1>>, <<1, 0>>, <<0, 0>>, <<1, 1>>, <<0>>, <<1>>,
                   <<0, 1, 0>>>>

\* The trace levels of the native library, and the levels the engine may
\* hand to the callback (a char: the known ones and unknown ones).
TraceLevelOff == 0
TraceLevelError == 1
TraceLevelWarning == 2
TraceLevelInfo == 3
TraceLevelVerbose == 4
TraceLevels == {0, 1, 2, 3, 4, 5, 255}
\* The training_step_episodes a direct caller of training_step passes.
ClientEpisodes == {0, 1, 2}
\* Messages as the engine passes them: a null pointer or a byte string.
Message(is_null, bytes) == [is_null |-> is_null, bytes |-> bytes]
Messages == {Message(FALSE, <<79, 75>>), Message(FALSE, <<79, 200>>),
             Message(FALSE, <<>>), Message(TRUE, <<>>)}

Min2(a, b) == IF a < b THEN a ELSE b
Max2(a, b) == IF a > b THEN a ELSE b

(***************************************************************************)
(* Pure functions of the source.                                           *)
(***************************************************************************)
\* float addition with np.inf: inf + t = inf.
MetricAdd(a, t) == IF a = Inf THEN Inf ELSE a + t

\* (Faulty variant: the latest metric in place of the minimum.)
MetricLast(a, b) == a
\* (Faulty variant: max in place of min.)
MetricMax(a, b) == IF b > a THEN b ELSE a
\* min(curr_metric, min_metric)
MetricMin(a, b) == IF b < a THEN b ELSE a

\* convert_features_to_c raises AttributeError on an unrecognized type.
ConvertFeaturesRaises(features) ==
    \E k \in 1..Len(features) :
        /\ features[k].type # "categorical"
        /\ features[k].type # "continuous"

\* (Faulty variant: the class bound off by one.)
TrainingGateOffByOne(model_type, n_classes) ==
    model_type # "classification" \/ 1 <= n_classes
\* training_step's guard around its episode loop.
TrainingGate(model_type, n_classes) ==
    model_type # "classification" \/ 2 <= n_classes

\* (Faulty variant: < in place of <=.)
NoTensorStrict(model_type, n_classes) ==
    model_type = "classification" /\ n_classes < 1
\* The "return None" guard of _get_best_model_feature_combination and
\* _get_current_model_feature_combination.
NoTensor(model_type, n_classes) ==
    model_type = "classification" /\ n_classes <= 1

\* list(reversed(dimensions))
RECURSIVE Reversed(_)
Reversed(s) ==
    IF s = <<>> THEN <<>> ELSE Append(Reversed(Tail(s)), Head(s))

\* The loop of _get_feature_combination_shape: one n_bins appended per
\* feature of the combination, in the combination's order.
RECURSIVE Dimensions(_, _)
Dimensions(features, attrs) ==
    IF attrs = <<>> THEN <<>>
    ELSE <<features[Head(attrs) + 1].n_bins>>
             \o Dimensions(features, Tail(attrs))

\* (Faulty variant: the reversal left out.)
ShapeUnreversed(model_type, n_classes, features, feature_combinations, index) ==
    LET dimensions ==
            Dimensions(features, feature_combinations[index + 1].attributes)
    IN  IF model_type = "classification" /\ n_classes > 2
        THEN Append(dimensions, n_classes)
        ELSE dimensions
\* _get_feature_combination_shape
FeatureCombinationShape(model_type, n_classes, features, feature_combinations, index) ==
    LET dimensions ==
            Dimensions(features, feature_combinations[index + 1].attributes)
    IN  IF model_type = "classification" /\ n_classes > 2
        THEN Append(Reversed(dimensions), n_classes)
        ELSE Reversed(dimensions)

\* (Faulty variant: the baseline is re-anchored when the counter is not 0.)
ReanchorInverted(no_change_run_length, bp_metric, min_metric) ==
    IF no_change_run_length # 0 THEN min_metric ELSE bp_metric
\* (Faulty variant: the baseline is never re-anchored.)
ReanchorNever(no_change_run_length, bp_metric, min_metric) == bp_metric
\* if no_change_run_length == 0: bp_metric = min_metric
Reanchor(no_change_run_length, bp_metric, min_metric) ==
    IF no_change_run_length = 0 THEN min_metric ELSE bp_metric

\* (Faulty variant: <= in place of <.)
NextStallNonStrict(no_change_run_length, min_metric, tolerance, bp_metric) ==
    IF MetricAdd(min_metric, tolerance) <= bp_metric
    THEN 0
    ELSE no_change_run_length + 1
\* The stall counter after the comparison against the baseline.
NextStall(no_change_run_length, min_metric, tolerance, bp_metric) ==
    IF MetricAdd(min_metric, tolerance) < bp_metric
    THEN 0
    ELSE no_change_run_length + 1

\* (Faulty variants: > in place of >=; the sign test left out.)
StopConditionStrict(run_length, no_change_run_length) ==
    run_length >= 0 /\ no_change_run_length > run_length
StopConditionNoSign(run_length, no_change_run_length) ==
    no_change_run_length >= run_length
\* The break condition at the end of a round.
StopCondition(run_length, no_change_run_length) ==
    run_length >= 0 /\ no_change_run_length >= run_length

\* sorted(interaction_scores, key=lambda x: x[1], reverse=True): stable, so
\* equal scores keep their input order.
\* (Faulty variant: an entry goes before the entries of equal score.)
RECURSIVE InsertDescUnstable(_, _)
InsertDescUnstable(sorted, x) ==
    IF sorted = <<>> THEN <<x>>
    ELSE IF sorted[1][2] > x[2]
         THEN <<sorted[1]>> \o InsertDescUnstable(Tail(sorted), x)
         ELSE <<x>> \o sorted
RECURSIVE InsertDesc(_, _)
InsertDesc(sorted, x) ==
    IF sorted = <<>> THEN <<x>>
    ELSE IF sorted[1][2] >= x[2]
         THEN <<sorted[1]>> \o InsertDesc(Tail(sorted), x)
         ELSE <<x>> \o sorted
RECURSIVE SortedDesc(_)
SortedDesc(s) ==
    IF s = <<>> THEN <<>>
    ELSE InsertDesc(SortedDesc(SubSeq(s, 1, Len(s) - 1)), s[Len(s)])

\* A faulty variant: a negative n keeps nothing.
Slice0NoNegative(s, n) == SubSeq(s, 1, Min2(Max2(n, 0), Len(s)))

\* s[0:n] with Python's slice rules (a negative n counts from the end).
Slice0(s, n) ==
    IF n >= 0 THEN SubSeq(s, 1, Min2(n, Len(s)))
    ELSE SubSeq(s, 1, Max2(0, Len(s) + n))

\* message.decode("ascii"): None has no decode, and a byte above 127 is
\* not ascii.
DecodeAscii(message) ==
    IF message.is_null THEN [raised |-> "AttributeError", text |-> <<>>]
    ELSE IF \E k \in 1..Len(message.bytes) : message.bytes[k] > 127
         THEN [raised |-> "UnicodeDecodeError", text |-> <<>>]
         ELSE [raised |-> "none", text |-> message.bytes]

\* The if/elif chain of native_log: the log method a level goes to.
LogMethod(trace_level) ==
    IF trace_level = TraceLevelError THEN "error"
    ELSE IF trace_level = TraceLevelWarning THEN "warning"
    ELSE IF trace_level = TraceLevelInfo THEN "info"
    ELSE IF trace_level = TraceLevelVerbose THEN "debug"
    ELSE "none"

\* The try-body of native_log: the method it calls, with what text, and the
\* exception the body ends with (from the decoding or from the handler).
NativeLogBody(trace_level, message, handler_fails) ==
    LET decoded == DecodeAscii(message)
        method == LogMethod(trace_level)
    IN  IF decoded.raised # "none"
        THEN [method |-> "none", text |-> <<>>, raised |-> decoded.raised]
        ELSE [method |-> method, text |-> decoded.text,
              raised |-> IF method # "none" /\ handler_fails
                         THEN "HandlerError" ELSE "none"]

\* (Faulty variant: the except clause lets the exception through.)
ExceptPassReraises(raised) == raised
\* except: pass -- whatever the body raised, nothing leaves the callback.
ExceptPass(raised) == "none"

(***************************************************************************)
(* State.                                                                  *)
(***************************************************************************)
VARIABLES
    pc,              \* where control is
    ret,             \* where the running method returns to
    args,            \* the arguments of the run (fixed)
    engine_metrics,  \* the metrics the engine will write (fixed)
    pointer,         \* _model_pointer / _interaction_pointer
    engine,          \* the engine's side of the handle, and its call record
    boost,           \* locals of cyclic_gradient_boost
    ts,              \* frame of training_step
    gm,              \* frame of get_best_model / get_current_model
    inter,           \* locals of get_interactions
    exception,       \* the exception in flight or last raised
    retval,          \* the value the last finished call returned
    rounds,          \* history: one record per finished round
    client,          \* the free-running caller of the session specification
    logged,          \* the last delivery of the engine's log callback
    native           \* Native._native and the record of its initialisations

vars == <<pc, ret, args, engine_metrics, pointer, engine, boost, ts, gm,
          inter, exception, retval, rounds, client, logged, native>>

NoValue == "None"

Engine0 == [handle |-> "unallocated", last_call |-> "none", n_init |-> 0,
            n_free |-> 0, stale_calls |-> 0, n_generate |-> 0, n_apply |-> 0,
            n_get_best |-> 0, n_get_current |-> 0, n_score |-> 0,
            calls |-> <<>>, scored |-> <<>>, got |-> <<>>, answer |-> "none",
            current |-> <<>>, best |-> <<>>, best_metric |-> Inf]
Boost0 == [min_metric |-> Inf, episode_index |-> 0, range_pos |-> 0,
           no_change_run_length |-> 0, bp_metric |-> Inf,
           feature_combination_index |-> 0, model_update |-> <<>>]
\* (Faulty variant: the metric slot starts at +infinity.)
MetricOutputInf == Inf
\* metric_output = ct.c_double(0.0)
MetricOutput0 == 0
Ts0 == [feature_combination_index |-> 0, training_step_episodes |-> 0,
        i |-> 0, metric_output |-> MetricOutput0,
        model_update_tensor_pointer |-> 0,
        n_generate |-> 0, n_apply |-> 0]
Gm0 == [which |-> "none", index |-> 0, model |-> <<>>, handed_out |-> <<>>]
Inter0 == [interaction_scores |-> <<>>, pos |-> 0, candidate |-> <<>>]
Client0 == [calls_left |-> 0, op |-> "none", model |-> <<>>,
            handed_out |-> <<>>]
\* Native._native = None (0), and nothing loaded or registered yet.
\* Instances are numbered by the call that created them.
Native0 == [instance |-> 0, n_calls |-> 0, n_load |-> 0, n_register |-> 0,
            n_stored |-> 0, callback |-> 0, referenced |-> {},
            is_debug |-> FALSE, log_level |-> 0, trace_level |-> 0,
            returned |-> 0, raised |-> "none", arg_is_debug |-> FALSE,
            arg_log_level |-> "None"]
Logged0 == [n |-> 0, trace_level |-> 0, message |-> Message(TRUE, <<>>),
            handler_fails |-> FALSE, method |-> "none", text |-> <<>>,
            raised |-> "none", escaped |-> "none"]

\* The engine's tensors, one per feature combination, as the number of the
\* update that last wrote them; released memory holds anything (-1).
ZeroTensors(feature_combinations) ==
    [k \in 1..Len(feature_combinations) |-> 0]
Released(tensors) == [k \in 1..Len(tensors) |-> -1]
\* The engine applies an update to the current model and keeps a copy of
\* the model whose validation metric is the lowest so far.
Applied(e, index, metric) ==
    IF e.handle # "live" THEN e
    ELSE LET current == [e.current EXCEPT ![index + 1] = e.n_apply]
         IN  [e EXCEPT !.current = current,
                       !.best = IF metric < e.best_metric THEN current ELSE @,
                       !.best_metric = Min2(metric, @)]

\* (Faulty variant: the array is a view on the engine's memory.)
MakeNdarrayNoCopy(c_pointer, shape, content) ==
    [kind |-> "ndarray", combination |-> c_pointer.index, shape |-> shape,
     owned |-> FALSE, c_pointer |-> c_pointer, data |-> 0]
\* make_ndarray with copy_data=True: arr.copy(), an array with its own
\* storage holding what the memory region held at the call.
MakeNdarray(c_pointer, shape, content) ==
    [kind |-> "ndarray", combination |-> c_pointer.index, shape |-> shape,
     owned |-> TRUE, c_pointer |-> c_pointer, data |-> content]
\* The memory region a pointer of the engine designates.
Region(e, c_pointer) ==
    IF c_pointer.which = "best" THEN e.best[c_pointer.index + 1]
    ELSE e.current[c_pointer.index + 1]
\* What reading an array yields now.
ArrayValue(array, e) ==
    IF array.owned THEN array.data ELSE Region(e, array.c_pointer)

\* The engine's record of one more call made with the session's handle.
Called(e, name) ==
    [e EXCEPT !.last_call = name,
              !.stale_calls = @ + (IF e.handle = "freed" THEN 1 ELSE 0)]

IsHelper == args.proc \in {"boost", "interactions"}

\* (Faulty variant: the model_type is only checked after an engine call.)
BadModelTypeNever(model_type) == FALSE
\* The else branch of the constructors' model_type dispatch.
BadModelType(model_type) ==
    model_type \notin {"classification", "regression"}

\* (Faulty variant: a nonzero status is reported as an allocation failure.)
NonzeroStatusAsMemoryError == "MemoryError"
\* raise Exception("Out of memory in ..."): what a nonzero status from
\* ApplyModelFeatureCombinationUpdate or GetInteractionScore raises.
NonzeroStatusError == "Exception"

\* (Faulty variant: an exception leaves the with-block without close().)
OnRaiseInWithSkipsClose == "raised"
\* Where an exception raised inside the helpers' with-block goes: closing()
\* calls close() and the exception propagates.
OnRaiseInWith == "close"

RaisePc == IF IsHelper THEN OnRaiseInWith ELSE "idle"
\* (Faulty variant: the helper swallows the exception and carries on.)
RaiseRetResumes == ret
\* After the close() of closing() the exception leaves the helper; a method
\* called directly just raises to its caller.
RaiseRet == IF IsHelper THEN "raised" ELSE ret

(***************************************************************************)
(* The session constructors.                                               *)
(***************************************************************************)
\* NativeEBMTraining.__init__: the feature conversion and the model_type
\* dispatch raise AttributeError before any engine call; a null handle from
\* InitializeTraining* raises MemoryError.
NewTraining ==
    /\ pc = "new_training"
    /\ IF \/ ConvertFeaturesRaises(args.features)
          \/ BadModelType(args.model_type)
       THEN /\ exception' = "AttributeError"
            /\ pc' = "raised"
            /\ UNCHANGED <<pointer, engine>>
       ELSE \E h \in {"null", "handle"} :
            /\ pointer' = h
            /\ engine' = [engine EXCEPT
                             !.n_init = @ + 1,
                             !.last_call = "InitializeTraining",
                             !.answer = h,
                             !.handle = IF h = "handle" THEN "live" ELSE @,
                             !.current = IF h = "handle"
                                         THEN ZeroTensors(
                                                args.feature_combinations)
                                         ELSE @,
                             !.best = IF h = "handle"
                                      THEN ZeroTensors(
                                             args.feature_combinations)
                                      ELSE @]
            /\ IF h = "null"
               THEN exception' = "MemoryError" /\ pc' = "raised"
               ELSE pc' = ret /\ UNCHANGED exception
    /\ UNCHANGED <<ret, args, engine_metrics, native, logged, boost, ts, gm,
                   inter, retval, rounds, client>>

\* NativeEBMInteraction.__init__
NewInteraction ==
    /\ pc = "new_interaction"
    /\ IF \/ ConvertFeaturesRaises(args.features)
          \/ BadModelType(args.model_type)
       THEN /\ exception' = "AttributeError"
            /\ pc' = "raised"
            /\ UNCHANGED <<pointer, engine>>
       ELSE \E h \in {"null", "handle"} :
            /\ pointer' = h
            /\ engine' = [engine EXCEPT
                             !.n_init = @ + 1,
                             !.last_call = "InitializeInteraction",
                             !.answer = h,
                             !.handle = IF h = "handle" THEN "live" ELSE @]
            /\ IF h = "null"
               THEN exception' = "MemoryError" /\ pc' = "raised"
               ELSE pc' = ret /\ UNCHANGED exception
    /\ UNCHANGED <<ret, args, engine_metrics, native, logged, boost, ts, gm,
                   inter, retval, rounds, client>>

(***************************************************************************)
(* The session methods, one step per engine call.                          *)
(***************************************************************************)
\* close() of either session: the free call, with whatever the pointer
\* attribute holds; the attribute is not cleared.
Close ==
    /\ pc = "close"
    /\ engine' = [Called(engine, IF args.kind = "training"
                                 THEN "FreeTraining" ELSE "FreeInteraction")
                     EXCEPT !.n_free = @ + 1, !.handle = "freed",
                            !.answer = "none",
                            !.current = Released(@), !.best = Released(@)]
    /\ pc' = ret
    /\ UNCHANGED <<ret, args, engine_metrics, native, logged, pointer, boost,
                   ts, gm, inter, exception, retval, rounds, client>>

\* (Faulty variant: the apply call is handed a null tensor.)
ApplyArgumentsNullTensor(frame) ==
    [call |-> "apply", index |-> frame.feature_combination_index, tensor |-> 0]
\* What training_step hands to ApplyModelFeatureCombinationUpdate: its own
\* feature_combination_index and the pointer the generate call returned.
ApplyArguments(frame) ==
    [call |-> "apply", index |-> frame.feature_combination_index,
     tensor |-> frame.model_update_tensor_pointer]

\* training_step, one pass of the episode loop up to the generate call.
Generate ==
    /\ pc = "ts_loop"
    /\ TrainingGate(args.model_type, args.n_classes)
    /\ ts.i < ts.training_step_episodes
    /\ \E p \in {0, engine.n_generate + 1} :
         /\ engine' = [Called(engine, "GenerateModelFeatureCombinationUpdate")
                          EXCEPT !.n_generate = @ + 1,
                                 !.answer = IF p = 0 THEN "null" ELSE "tensor",
                                 !.calls = Append(@,
                                     [call |-> "generate",
                                      index |-> ts.feature_combination_index,
                                      tensor |-> p])]
         /\ ts' = [ts EXCEPT !.model_update_tensor_pointer = p,
                             !.n_generate = @ + 1]
         /\ IF p = 0
            THEN /\ exception' = "MemoryError"
                 /\ pc' = RaisePc
                 /\ ret' = RaiseRet
            ELSE /\ pc' = "ts_apply"
                 /\ UNCHANGED <<exception, ret>>
    /\ UNCHANGED <<args, engine_metrics, native, logged, pointer, boost, gm,
                   inter, retval, rounds, client>>

\* training_step, the apply call of the same pass.  Whether the engine has
\* written the metric slot when it reports a failure is not known.
Apply ==
    /\ pc = "ts_apply"
    /\ \E return_code \in {0, 1}, written \in BOOLEAN :
         /\ engine' =
              LET e == [Called(engine, "ApplyModelFeatureCombinationUpdate")
                          EXCEPT !.n_apply = @ + 1,
                                 !.answer = IF return_code = 0
                                            THEN "zero" ELSE "nonzero",
                                 !.calls = Append(@, ApplyArguments(ts))]
              IN  IF return_code = 0
                  THEN Applied(e, ts.feature_combination_index,
                               engine_metrics[(engine.n_apply
                                   % Len(engine_metrics)) + 1])
                  ELSE e
         /\ IF return_code # 0
            THEN /\ ts' = [ts EXCEPT
                              !.metric_output =
                                  IF written
                                  THEN engine_metrics[(engine.n_apply
                                           % Len(engine_metrics)) + 1]
                                  ELSE @,
                              !.n_apply = @ + 1]
                 /\ exception' = NonzeroStatusError
                 /\ pc' = RaisePc
                 /\ ret' = RaiseRet
            ELSE /\ ts' = [ts EXCEPT
                              !.metric_output =
                                  engine_metrics[(engine.n_apply
                                      % Len(engine_metrics)) + 1],
                              !.i = @ + 1,
                              !.n_apply = @ + 1]
                 /\ pc' = "ts_loop"
                 /\ UNCHANGED <<exception, ret>>
    /\ UNCHANGED <<args, engine_metrics, native, logged, pointer, boost, gm,
                   inter, retval, rounds, client>>

\* training_step: return metric_output.value
TrainingStepReturn ==
    /\ pc = "ts_loop"
    /\ ~(/\ TrainingGate(args.model_type, args.n_classes)
         /\ ts.i < ts.training_step_episodes)
    /\ retval' = ts.metric_output
    /\ pc' = ret
    /\ UNCHANGED <<ret, args, engine_metrics, native, logged, pointer, engine,
                   boost, ts, gm, inter, exception, rounds, client>>

\* get_best_model / get_current_model: one combination of the loop
\* (_get_best_model_feature_combination, _get_current_model_feature_combination).
GetModelFeatureCombination ==
    /\ pc = "gm_loop"
    /\ gm.index < Len(args.feature_combinations)
    /\ IF NoTensor(args.model_type, args.n_classes)
       THEN /\ gm' = [gm EXCEPT !.model = Append(@, [kind |-> "None"]),
                                !.handed_out = Append(@, 0),
                                !.index = @ + 1]
            /\ UNCHANGED <<engine, exception, pc, ret>>
       ELSE \E array_p \in {"null", "array"} :
            /\ engine' = IF gm.which = "best"
                         THEN [Called(engine, "GetBestModelFeatureCombination")
                                  EXCEPT !.n_get_best = @ + 1,
                                         !.got = Append(@, [which |-> "best",
                                                     index |-> gm.index]),
                                         !.answer = array_p]
                         ELSE [Called(engine, "GetCurrentModelFeatureCombination")
                                  EXCEPT !.n_get_current = @ + 1,
                                         !.got = Append(@,
                                                    [which |-> "current",
                                                     index |-> gm.index]),
                                         !.answer = array_p]
            /\ IF array_p = "null"
               THEN /\ exception' = "MemoryError"
                    /\ pc' = RaisePc
                    /\ ret' = RaiseRet
                    /\ UNCHANGED gm
               ELSE /\ gm' =
                         LET c_pointer == [which |-> gm.which,
                                           index |-> gm.index]
                             shape == FeatureCombinationShape(
                                          args.model_type, args.n_classes,
                                          args.features,
                                          args.feature_combinations,
                                          gm.index)
                             content == Region(engine, c_pointer)
                         IN  [gm EXCEPT
                                 !.model = Append(@,
                                     MakeNdarray(c_pointer, shape, content)),
                                 !.handed_out = Append(@, content),
                                 !.index = @ + 1]
                    /\ UNCHANGED <<exception, pc, ret>>
    /\ UNCHANGED <<args, engine_metrics, native, logged, pointer, boost, ts,
                   inter, retval, rounds, client>>

\* get_best_model / get_current_model: return model
GetModelReturn ==
    /\ pc = "gm_loop"
    /\ gm.index >= Len(args.feature_combinations)
    /\ retval' = gm.model
    /\ pc' = ret
    /\ UNCHANGED <<ret, args, engine_metrics, native, logged, pointer, engine,
                   boost, ts, gm, inter, exception, rounds, client>>

\* get_interaction_score
GetInteractionScore ==
    /\ pc = "score"
    /\ \E return_code \in {0, 1}, score \in ScoreValues :
         /\ engine' = [Called(engine, "GetInteractionScore")
                          EXCEPT !.n_score = @ + 1,
                                 !.answer = IF return_code = 0
                                            THEN "zero" ELSE "nonzero",
                                 !.scored = Append(@,
                                     [candidate |-> inter.candidate,
                                      return_code |-> return_code,
                                      score |-> IF return_code = 0
                                                THEN score ELSE 0])]
         /\ IF return_code # 0
            THEN /\ exception' = NonzeroStatusError
                 /\ pc' = RaisePc
                 /\ ret' = RaiseRet
                 /\ UNCHANGED retval
            ELSE /\ retval' = score
                 /\ pc' = ret
                 /\ UNCHANGED <<exception, ret>>
    /\ UNCHANGED <<args, engine_metrics, native, logged, pointer, boost, ts,
                   gm, inter, rounds, client>>

(***************************************************************************)
(* NativeHelper.cyclic_gradient_boost                                      *)
(***************************************************************************)
\* for episode_index in range(data_n_episodes)
RoundStart ==
    /\ pc = "round"
    /\ IF boost.range_pos < args.data_n_episodes
       THEN /\ boost' = [boost EXCEPT !.episode_index = boost.range_pos,
                                      !.range_pos = @ + 1,
                                      !.feature_combination_index = 0]
            /\ pc' = "combo"
       ELSE /\ pc' = "best"
            /\ UNCHANGED boost
    /\ UNCHANGED <<ret, args, engine_metrics, native, logged, pointer, engine,
                   ts, gm, inter, exception, retval, rounds, client>>

\* for feature_combination_index in range(len(feature_combinations)):
\* the call of training_step, whose frame starts with metric_output = 0.0
ComboStart ==
    /\ pc = "combo"
    /\ IF boost.feature_combination_index < Len(args.feature_combinations)
       THEN /\ ts' = [Ts0 EXCEPT
                         !.feature_combination_index =
                             boost.feature_combination_index,
                         !.training_step_episodes =
                             args.training_step_episodes]
            /\ pc' = "ts_loop"
            /\ ret' = "after_step"
       ELSE /\ pc' = "stop_check"
            /\ UNCHANGED <<ts, ret>>
    /\ UNCHANGED <<args, engine_metrics, native, logged, pointer, engine,
                   boost, gm, inter, exception, retval, rounds, client>>

\* curr_metric = training_step(...); min_metric = min(curr_metric, min_metric)
AfterStep ==
    /\ pc = "after_step"
    /\ boost' = [boost EXCEPT
                    !.min_metric = MetricMin(retval, @),
                    !.feature_combination_index = @ + 1]
    /\ pc' = "combo"
    /\ UNCHANGED <<ret, args, engine_metrics, native, logged, pointer, engine,
                   ts, gm, inter, exception, retval, rounds, client>>

\* The end of a round: re-anchor the baseline, update the stall counter,
\* break or go on.
StopCheck ==
    /\ pc = "stop_check"
    /\ LET bp == Reanchor(boost.no_change_run_length, boost.bp_metric,
                          boost.min_metric)
           stall == NextStall(boost.no_change_run_length, boost.min_metric,
                              args.early_stopping_tolerance, bp)
           stop == StopCondition(args.early_stopping_run_length, stall)
       IN  /\ boost' = [boost EXCEPT !.bp_metric = bp,
                                     !.no_change_run_length = stall]
           /\ rounds' = Append(rounds,
                  [episode_index |-> boost.episode_index,
                   min_metric |-> boost.min_metric,
                   bp_begin |-> boost.bp_metric,
                   stall_begin |-> boost.no_change_run_length,
                   bp_metric |-> bp,
                   stall |-> stall,
                   broke |-> stop])
           /\ pc' = IF stop THEN "best" ELSE "round"
    /\ UNCHANGED <<ret, args, engine_metrics, native, logged, pointer, engine,
                   ts, gm, inter, exception, retval, client>>

\* (Faulty variant: the helper asks for the current model.)
BoostAccessorCurrent == "current"
\* The accessor cyclic_gradient_boost ends with: get_best_model.
BoostAccessor == "best"

\* model_update = native_ebm_training.get_best_model(): the call
BoostGetBestModel ==
    /\ pc = "best"
    /\ gm' = [Gm0 EXCEPT !.which = BoostAccessor]
    /\ pc' = "gm_loop"
    /\ ret' = "got_model"
    /\ UNCHANGED <<args, engine_metrics, native, logged, pointer, engine,
                   boost, ts, inter, exception, retval, rounds, client>>

\* ... and its return; the with-block ends normally and closing() closes.
BoostGotModel ==
    /\ pc = "got_model"
    /\ boost' = [boost EXCEPT !.model_update = retval]
    /\ pc' = "close"
    /\ ret' = "boost_return"
    /\ UNCHANGED <<args, engine_metrics, native, logged, pointer, engine, ts,
                   gm, inter, exception, retval, rounds, client>>

\* (Faulty variant: the number of rounds started is returned.)
ReturnedRoundCount(locals) == locals.range_pos
\* The third value of the return statement: the loop variable
\* episode_index, which is 0 if the loop body never ran.
ReturnedRound(locals) == locals.episode_index

\* return model_update, min_metric, episode_index
BoostReturn ==
    /\ pc = "boost_return"
    /\ retval' = [model_update |-> boost.model_update,
                  min_metric |-> boost.min_metric,
                  episode_index |-> ReturnedRound(boost)]
    /\ pc' = "done"
    /\ UNCHANGED <<ret, args, engine_metrics, native, logged, pointer, engine,
                   boost, ts, gm, inter, exception, rounds, client>>

(***************************************************************************)
(* NativeHelper.get_interactions                                           *)
(***************************************************************************)
\* (Faulty variant: the candidates are taken from the end of the list.)
NextCandidateBackwards(candidates, pos) == candidates[Len(candidates) - pos]
\* The candidate the for-loop yields after pos candidates.
NextCandidate(candidates, pos) == candidates[pos + 1]

\* for feature_combination in iter_feature_combinations: the score call;
\* after the last candidate the with-block ends and closing() closes.
InteractionLoop ==
    /\ pc = "inter_loop"
    /\ IF inter.pos < Len(args.iter_feature_combinations)
       THEN /\ inter' = [inter EXCEPT
                            !.candidate =
                                NextCandidate(args.iter_feature_combinations,
                                              inter.pos),
                            !.pos = @ + 1]
            /\ pc' = "score"
            /\ ret' = "after_score"
       ELSE /\ pc' = "close"
            /\ ret' = "rank"
            /\ UNCHANGED inter
    /\ UNCHANGED <<args, engine_metrics, native, logged, pointer, engine,
                   boost, ts, gm, exception, retval, rounds, client>>

\* interaction_scores.append((feature_combination, score))
AfterScore ==
    /\ pc = "after_score"
    /\ inter' = [inter EXCEPT
                    !.interaction_scores = Append(@, <<inter.candidate, retval>>)]
    /\ pc' = "inter_loop"
    /\ UNCHANGED <<ret, args, engine_metrics, native, logged, pointer, engine,
                   boost, ts, gm, exception, retval, rounds, client>>

\* The ranking after the with-block.
Rank ==
    /\ pc = "rank"
    /\ LET ranked_scores == SortedDesc(inter.interaction_scores)
           n_interactions == Min2(Len(ranked_scores), args.n_interactions)
           final_ranked_scores == Slice0(ranked_scores, n_interactions)
       IN  retval' = [final_indices |->
                         [k \in 1..Len(final_ranked_scores) |->
                             final_ranked_scores[k][1]],
                      final_scores |->
                         [k \in 1..Len(final_ranked_scores) |->
                             final_ranked_scores[k][2]]]
    /\ pc' = "done"
    /\ UNCHANGED <<ret, args, engine_metrics, native, logged, pointer, engine,
                   boost, ts, gm, inter, exception, rounds, client>>

(***************************************************************************)
(* A caller that uses a session directly, in any order.                    *)
(***************************************************************************)
\* The caller keeps the model the last get_best_model / get_current_model
\* call returned (with, as history, what the engine's memory held when each
\* array was made).
Kept ==
    IF client.op \in {"get_best_model", "get_current_model"}
         /\ exception = "none"
    THEN [client EXCEPT !.model = retval, !.handed_out = gm.handed_out]
    ELSE client

ClientTrainingStep ==
    /\ pc = "idle"
    /\ args.kind = "training"
    /\ client.calls_left > 0
    /\ \E index \in 0..(Len(args.feature_combinations) - 1),
          episodes \in ClientEpisodes :
         ts' = [Ts0 EXCEPT !.feature_combination_index = index,
                           !.training_step_episodes = episodes]
    /\ client' = [Kept EXCEPT !.calls_left = @ - 1,
                         !.op = "training_step"]
    /\ pc' = "ts_loop"
    /\ exception' = "none"
    /\ retval' = NoValue
    /\ UNCHANGED <<ret, args, engine_metrics, native, logged, pointer, engine,
                   boost, gm, inter, rounds>>

ClientGetModel ==
    /\ pc = "idle"
    /\ args.kind = "training"
    /\ client.calls_left > 0
    /\ \E which \in {"best", "current"} :
         /\ gm' = [Gm0 EXCEPT !.which = which]
         /\ client' = [Kept EXCEPT !.calls_left = @ - 1,
                         !.op = IF which = "best" THEN "get_best_model"
                                                ELSE "get_current_model"]
    /\ pc' = "gm_loop"
    /\ exception' = "none"
    /\ retval' = NoValue
    /\ UNCHANGED <<ret, args, engine_metrics, native, logged, pointer, engine,
                   boost, ts, inter, rounds>>

ClientGetInteractionScore ==
    /\ pc = "idle"
    /\ args.kind = "interaction"
    /\ client.calls_left > 0
    /\ \E k \in 1..MaxCandidates :
         inter' = [inter EXCEPT !.candidate = AllCandidates[k]]
    /\ client' = [Kept EXCEPT !.calls_left = @ - 1,
                         !.op = "get_interaction_score"]
    /\ pc' = "score"
    /\ exception' = "none"
    /\ retval' = NoValue
    /\ UNCHANGED <<ret, args, engine_metrics, native, logged, pointer, engine,
                   boost, ts, gm, rounds>>

ClientClose ==
    /\ pc = "idle"
    /\ client.calls_left > 0
    /\ client' = [Kept EXCEPT !.calls_left = @ - 1,
                         !.op = "close"]
    /\ pc' = "close"
    /\ exception' = "none"
    /\ retval' = NoValue
    /\ UNCHANGED <<ret, args, engine_metrics, native, logged, pointer, engine,
                   boost, ts, gm, inter, rounds>>

\* An engine call made with a freed handle is undefined behaviour in the
\* native library: besides answering as usual, the process may die.
Crash ==
    /\ engine.stale_calls > 0
    /\ pc # "crashed"
    /\ pc' = "crashed"
    /\ UNCHANGED <<ret, args, engine_metrics, native, logged, pointer, engine,
                   boost, ts, gm, inter, exception, retval, rounds, client>>

\* The engine calls native_log (registered by _set_logging) while one of
\* its functions is running on behalf of the wrapper.
NativeLog ==
    /\ pc \in {"new_training", "new_interaction", "ts_loop", "ts_apply",
               "gm_loop", "score", "close"}
    /\ logged.n < MaxLogCalls
    /\ \E trace_level \in TraceLevels, message \in Messages,
          handler_fails \in BOOLEAN :
         LET body == NativeLogBody(trace_level, message, handler_fails)
             escaped == ExceptPass(body.raised)
         IN  /\ logged' = [n |-> logged.n + 1, trace_level |-> trace_level,
                           message |-> message,
                           handler_fails |-> handler_fails,
                           method |-> body.method, text |-> body.text,
                           raised |-> body.raised, escaped |-> escaped]
             /\ IF escaped # "none"
                THEN /\ exception' = escaped
                     /\ pc' = RaisePc
                     /\ ret' = RaiseRet
                ELSE UNCHANGED <<pc, ret, exception>>
    /\ UNCHANGED <<args, engine_metrics, native, pointer, engine, boost, ts,
                   gm, inter, retval, rounds, client>>

(***************************************************************************)
(* Initial states and specifications.                                      *)
(***************************************************************************)
ClassCounts(model_type) ==
    IF model_type = "classification" THEN 0..MaxClasses ELSE {0}

BoostArgs(mt, nc, fs, n, tse, dne, tol, rl) ==
    [proc |-> "boost", kind |-> "training", model_type |-> mt,
     n_classes |-> nc, features |-> fs,
     feature_combinations |-> SubSeq(AllCombinations, 1, n),
     training_step_episodes |-> tse, data_n_episodes |-> dne,
     early_stopping_tolerance |-> tol, early_stopping_run_length |-> rl]

InteractionArgs(mt, nc, fs, n, ni) ==
    [proc |-> "interactions", kind |-> "interaction", model_type |-> mt,
     n_classes |-> nc, features |-> fs,
     iter_feature_combinations |-> SubSeq(AllCandidates, 1, n),
     n_interactions |-> ni]

SessionArgs(kind, mt, nc, fs, a, b) ==
    [proc |-> "session", kind |-> kind, model_type |-> mt, n_classes |-> nc,
     features |-> fs, feature_combinations |-> SubSeq(AllCombinations, a, b)]

Start(a, script, pc0, ret0, calls) ==
    /\ args = a
    /\ engine_metrics = script
    /\ pc = pc0
    /\ ret = ret0
    /\ pointer = NoValue
    /\ engine = Engine0
    /\ boost = Boost0
    /\ ts = Ts0
    /\ gm = Gm0
    /\ inter = Inter0
    /\ exception = "none"
    /\ retval = NoValue
    /\ rounds = <<>>
    /\ client = [Client0 EXCEPT !.calls_left = calls]
    /\ logged = Logged0
    /\ native = Native0

\* Runs of the two helpers over every shape of input.
InitBoost ==
    \E mt \in ModelTypes, fs \in {FeaturesA, FeaturesBad},
       n \in 0..MaxCombos, tse \in 0..MaxStepEpisodes, dne \in 0..MaxRounds,
       tol \in Tolerances, rl \in RunLengths, script \in FewScripts :
      \E nc \in ClassCounts(mt) :
        Start(BoostArgs(mt, nc, fs, n, tse, dne, tol, rl), script,
              "new_training", "round", 0)

InitInteractions ==
    \E mt \in ModelTypes, fs \in {FeaturesA, FeaturesBad},
       n \in 0..MaxCandidates, ni \in -1..(MaxCandidates + 1) :
      \E nc \in ClassCounts(mt) :
        Start(InteractionArgs(mt, nc, fs, n, ni), ScenarioScript,
              "new_interaction", "inter_loop", 0)

Init == InitBoost \/ InitInteractions

SessionMethods ==
    \/ Close
    \/ Generate
    \/ Apply
    \/ TrainingStepReturn
    \/ GetModelFeatureCombination
    \/ GetModelReturn
    \/ GetInteractionScore

BoostSteps ==
    \/ NewTraining
    \/ RoundStart
    \/ ComboStart
    \/ AfterStep
    \/ StopCheck
    \/ BoostGetBestModel
    \/ BoostGotModel
    \/ BoostReturn

InteractionSteps ==
    \/ NewInteraction
    \/ InteractionLoop
    \/ AfterScore
    \/ Rank

Next == BoostSteps \/ InteractionSteps \/ SessionMethods

Spec == Init /\ [][Next]_vars

\* Single-episode boosting runs over every metric script, tolerance and run
\* length; with one combination the per-round metrics are the script.
InitStopping ==
    \E n \in 1..MaxCombos, dne \in 0..MaxRounds, tol \in Tolerances,
       rl \in RunLengths, script \in MetricScripts :
        Start(BoostArgs("regression", 0, FeaturesA, n, 1, dne, tol, rl),
              script, "new_training", "round", 0)

NextStopping ==
    \/ BoostSteps
    \/ Close
    \/ Generate
    \/ Apply
    \/ TrainingStepReturn
    \/ GetModelFeatureCombination
    \/ GetModelReturn

SpecStopping == InitStopping /\ [][NextStopping]_vars

\* A live session of either kind in the hands of a free-running caller.
InitSession ==
    \E kind \in {"training", "interaction"}, mt \in ModelTypes,
       fs \in {FeaturesA, FeaturesB, FeaturesBad},
       a \in 1..Len(AllCombinations), b \in 0..Len(AllCombinations),
       script \in {ScenarioScript} :
      \E nc \in (IF mt = "classification" THEN 0..MaxClasses
                                          ELSE {0, MaxClasses}) :
        /\ b - a + 1 <= MaxCombos
        /\ b - a + 1 >= 0
        /\ kind = "interaction" => (a = 1 /\ b = 0)
        /\ Start(SessionArgs(kind, mt, nc, fs, a, b), script,
                 IF kind = "training" THEN "new_training"
                                      ELSE "new_interaction",
                 "idle", MaxClientCalls)

NextSession ==
    \/ NewTraining
    \/ NewInteraction
    \/ ClientTrainingStep
    \/ ClientGetModel
    \/ ClientGetInteractionScore
    \/ ClientClose
    \/ Crash
    \/ SessionMethods

SpecSession == InitSession /\ [][NextSession]_vars

\* Runs of get_interactions over longer candidate lists, for the ranking.
InitRanking ==
    \E n \in 0..MaxRanked, ni \in (-3)..(MaxRanked + 1) :
        Start(InteractionArgs("regression", 0, FeaturesA, n, ni),
              ScenarioScript, "new_interaction", "inter_loop", 0)

NextRanking ==
    \/ InteractionSteps
    \/ GetInteractionScore
    \/ Close

SpecRanking == InitRanking /\ [][NextRanking]_vars

\* Short runs of the two helpers during which the engine logs.
InitLogging ==
    \/ \E dne \in 0..1 :
         Start(BoostArgs("regression", 0, FeaturesA, 1, 1, dne, 0, -1),
               ScenarioScript, "new_training", "round", 0)
    \/ Start(InteractionArgs("regression", 0, FeaturesA, 1, 1),
             ScenarioScript, "new_interaction", "inter_loop", 0)

NextLogging == Next \/ NativeLog

SpecLogging == InitLogging /\ [][NextLogging]_vars

\* The helpers' runs and the free-running caller's sessions together.
InitAny == Init \/ InitSession

NextAny ==
    \/ BoostSteps
    \/ InteractionSteps
    \/ SessionMethods
    \/ ClientTrainingStep
    \/ ClientGetModel
    \/ ClientGetInteractionScore
    \/ ClientClose
    \/ Crash

SpecAny == InitAny /\ [][NextAny]_vars

(***************************************************************************)
(* Properties.                                                             *)
(***************************************************************************)
Degenerate == args.model_type = "classification" /\ args.n_classes <= 1
Tolerance == args.early_stopping_tolerance
RunLength == args.early_stopping_run_length
FreeCalls == {"FreeTraining", "FreeInteraction"}

\* C1: in every helper run whose init call returned a non-null handle, the
\* free call is made exactly once and no engine call follows it, whether
\* the run returns (all rounds, or an early-stopping break) or raises.
C1_FreeOnceAndLast ==
    /\ engine.n_free <= 1
    /\ engine.stale_calls = 0
    /\ (pc \in {"done", "raised"} /\ pointer = "handle") =>
           /\ engine.n_free = 1
           /\ engine.last_call = (IF args.proc = "boost" THEN "FreeTraining"
                                                         ELSE "FreeInteraction")

\* A boosting run that raised inside an apply call and has been closed.
C1_Witness ==
    /\ pc = "raised"
    /\ exception = "Exception"
    /\ args.proc = "boost"
    /\ engine.n_apply >= 2
    /\ engine.n_free = 1

\* C2: no engine call is ever made with a handle that was already freed.
C2_NoCallOnReleasedHandle == engine.stale_calls = 0

\* C3: a round's end leaves the loop by break exactly when the run length
\* is >= 0 and the stall counter just computed has reached it; with a
\* negative run length a run that returns has executed every round.
C3_EarlyStopIff ==
    /\ [][pc = "stop_check" =>
            ((pc' = "best") <=>
                (RunLength >= 0 /\ boost'.no_change_run_length >= RunLength))]_vars
    /\ []((pc = "done" /\ RunLength < 0) =>
            Len(rounds) = args.data_n_episodes)

\* The loop was left by break with rounds still to go.
C3_Witness ==
    /\ pc = "best"
    /\ Len(rounds) >= 2
    /\ Len(rounds) < args.data_n_episodes
    /\ RunLength >= 0
    /\ rounds[Len(rounds)].stall >= RunLength

\* The running minimum fell by more than the tolerance from each finished
\* round to the next.
SteadilyImproving ==
    /\ Tolerance >= 0
    /\ \A k \in 2..Len(rounds) :
           MetricAdd(rounds[k].min_metric, Tolerance) < rounds[k - 1].min_metric

\* C4 as stated: under steady improvement the stall counter is 0 at the
\* end of every round.
C4_Original ==
    SteadilyImproving => \A k \in 1..Len(rounds) : rounds[k].stall = 0

\* C4 amended: under steady improvement the stall counter is 1 at the end
\* of rounds 0, 2, 4, ... and 0 at the end of rounds 1, 3, 5, ...
C4_StallAlternates ==
    SteadilyImproving =>
        \A k \in 1..Len(rounds) :
            rounds[k].stall = (IF rounds[k].episode_index % 2 = 0 THEN 1 ELSE 0)

\* Three finished rounds of steady improvement.
C4_Witness ==
    /\ SteadilyImproving
    /\ Len(rounds) >= 3

\* The scenario of C5.
Scenario ==
    /\ args.proc = "boost"
    /\ Len(args.feature_combinations) = 1
    /\ args.training_step_episodes = 1
    /\ Tolerance = 10
    /\ RunLength = 2
    /\ args.data_n_episodes >= 4
    /\ engine_metrics = <<1000, 995, 994, 994>>

\* C5 as stated: the scenario runs rounds 0..3 and returns round index 3.
C5_Original ==
    (Scenario /\ pc = "done") =>
        (retval.episode_index = 3 /\ Len(rounds) = 4)

\* C5 amended: the scenario runs rounds 0 and 1 and returns round index 1.
C5_StopsAfterRoundOne ==
    (Scenario /\ pc = "done") =>
        /\ retval.episode_index = 1
        /\ Len(rounds) = 2
        /\ rounds[1].stall = 1
        /\ rounds[2].stall = 2

\* The scenario's run has returned.
C5_Witness == Scenario /\ pc = "done"

\* C6 as stated: the counter is reset when the running minimum plus the
\* tolerance is below the baseline the round began with, and incremented
\* by one otherwise.
C6_Original ==
    \A k \in 1..Len(rounds) :
        rounds[k].stall =
            (IF MetricAdd(rounds[k].min_metric, Tolerance) < rounds[k].bp_begin
             THEN 0
             ELSE rounds[k].stall_begin + 1)

\* C6 amended: the comparison is against the baseline after re-anchoring:
\* the round's own running minimum when the counter was 0 as the round
\* began, the baseline the round began with otherwise.
C6_StallTransition ==
    \A k \in 1..Len(rounds) :
        LET baseline == IF rounds[k].stall_begin = 0
                        THEN rounds[k].min_metric
                        ELSE rounds[k].bp_begin
        IN  rounds[k].stall =
                (IF MetricAdd(rounds[k].min_metric, Tolerance) < baseline
                 THEN 0
                 ELSE rounds[k].stall_begin + 1)

\* A run with a reset from a nonzero counter and an increment from a
\* nonzero counter.
C6_Witness ==
    /\ \E k \in 1..Len(rounds) :
           rounds[k].stall_begin > 0 /\ rounds[k].stall = 0
    /\ \E k \in 1..Len(rounds) :
           rounds[k].stall_begin > 0 /\ rounds[k].stall = rounds[k].stall_begin + 1

\* C7: a classification run with at most one class makes no generate and
\* no apply call; in every other run a training step that returns has made
\* exactly training_step_episodes generate calls and as many apply calls.
C7_UpdatesPerStep ==
    /\ Degenerate => (engine.n_generate = 0 /\ engine.n_apply = 0)
    /\ (pc = "after_step" /\ ~Degenerate) =>
           /\ ts.n_generate = args.training_step_episodes
           /\ ts.n_apply = args.training_step_episodes

\* A one-class classification run in its second round, back from a
\* two-episode training step.
C7_Witness ==
    /\ pc = "after_step"
    /\ args.model_type = "classification"
    /\ args.n_classes = 1
    /\ args.training_step_episodes = 2
    /\ Len(rounds) >= 1

\* The case of C8: one observed class, at least one round, at least one
\* combination, and the run has returned.
OneClassRunDone ==
    /\ pc = "done"
    /\ args.proc = "boost"
    /\ args.model_type = "classification"
    /\ args.n_classes = 1
    /\ args.data_n_episodes >= 1
    /\ Len(args.feature_combinations) >= 1

\* C8 as stated: the returned min_metric is still +infinity.
C8_Original == OneClassRunDone => retval.min_metric = Inf

\* C8 amended: the returned min_metric is 0.0, the value training_step
\* returns when it makes no update.
C8_MinMetricZero == OneClassRunDone => retval.min_metric = 0

\* Such a run, with training steps of two episodes.
C8_Witness == OneClassRunDone /\ args.training_step_episodes = 2

\* A get_best_model or get_current_model call has returned its list.
GotModel ==
    /\ pc = "idle"
    /\ client.op \in {"get_best_model", "get_current_model"}
    /\ exception = "none"

\* C9: for classification with at most one class both accessors return the
\* no-tensor marker for every combination and no GetBestModel- or
\* GetCurrentModelFeatureCombination call is ever made; for every other
\* configuration a returned list holds no marker.
C9_DegenerateLaw ==
    /\ Degenerate => (engine.n_get_best = 0 /\ engine.n_get_current = 0)
    /\ GotModel =>
           /\ Len(retval) = Len(args.feature_combinations)
           /\ \A k \in 1..Len(retval) :
                  (retval[k].kind = "None") <=> Degenerate

\* get_current_model returned two markers.
C9_Witness ==
    /\ GotModel
    /\ client.op = "get_current_model"
    /\ Degenerate
    /\ Len(retval) = 2

NBins(f) == args.features[f + 1].n_bins
MultiClass == args.model_type = "classification" /\ args.n_classes > 2

\* C10: the shape of every tensor is the bin counts of its combination's
\* features in reverse order, followed by n_classes exactly for
\* classification with more than two classes; combinations [[0],[1]] over
\* bin counts [3,4] under regression give shapes [3] and [4].
C10_ShapeLaw ==
    /\ \A k \in 1..Len(gm.model) :
           gm.model[k].kind = "ndarray" =>
               LET attrs == args.feature_combinations[k].attributes
                   shape == gm.model[k].shape
                   n == Len(attrs)
               IN  /\ Len(shape) = n + (IF MultiClass THEN 1 ELSE 0)
                   /\ \A j \in 1..n : shape[j] = NBins(attrs[n + 1 - j])
                   /\ MultiClass => shape[n + 1] = args.n_classes
    /\ ( /\ GotModel
         /\ args.model_type = "regression"
         /\ args.features = FeaturesA
         /\ args.feature_combinations
                = <<Combination(<<0>>), Combination(<<1>>)>> ) =>
           /\ retval[1].shape = <<3>>
           /\ retval[2].shape = <<4>>

\* A three-class session returned the tensor of combination [0, 1] over
\* bin counts [3, 4]: shape [4, 3, 3].
C10_Witness ==
    /\ GotModel
    /\ args.n_classes = 3
    /\ \E k \in 1..Len(retval) :
           /\ retval[k].kind = "ndarray"
           /\ args.feature_combinations[k].attributes = <<0, 1>>
           /\ retval[k].shape = <<4, 3, 3>>

RankingReturned == pc = "done" /\ args.proc = "interactions"
\* The place of a candidate in the input list (the candidates are distinct).
InputPlace(c) ==
    CHOOSE k \in 1..Len(args.iter_feature_combinations) :
        args.iter_feature_combinations[k] = c
Scores(pairs) == [k \in 1..Len(pairs) |-> pairs[k][2]]

\* C11: for every candidate list and every n >= 0, get_interactions returns
\* exactly min(n, number of candidates) entries; the returned scores are
\* non-increasing; every returned (combination, score) pair is a computed
\* pair and none is returned twice; no omitted candidate scores strictly
\* higher than a returned one; returned candidates of equal score are in
\* their input order.
C11_RankingLaw ==
    (RankingReturned /\ args.n_interactions >= 0) =>
        LET computed == inter.interaction_scores
            idx == retval.final_indices
            sc == retval.final_scores
            m == Len(idx)
        IN  /\ m = Min2(args.n_interactions,
                        Len(args.iter_feature_combinations))
            /\ Len(sc) = m
            /\ \A k \in 1..(m - 1) : sc[k] >= sc[k + 1]
            /\ \A k \in 1..m :
                  \E j \in 1..Len(computed) : computed[j] = <<idx[k], sc[k]>>
            /\ \A k, l \in 1..m : k # l => idx[k] # idx[l]
            /\ \A j \in 1..Len(computed) :
                  (\A k \in 1..m : idx[k] # computed[j][1]) =>
                      \A k \in 1..m : computed[j][2] <= sc[k]
            /\ \A k, l \in 1..m :
                  (k < l /\ sc[k] = sc[l]) =>
                      InputPlace(idx[k]) < InputPlace(idx[l])

\* The scenario 0.9, 0.9, 0.5, 0.2, 0.1 (in tenths) with n = 3.
C11_Witness ==
    /\ RankingReturned
    /\ args.n_interactions = 3
    /\ Scores(inter.interaction_scores) = <<9, 9, 5, 2, 1>>
    /\ retval.final_indices = SubSeq(args.iter_feature_combinations, 1, 3)
    /\ retval.final_scores = <<9, 9, 5>>

BoostFailed == args.proc = "boost" /\ exception # "none"

\* C12: once an engine call inside cyclic_gradient_boost has failed (a null
\* tensor from generate or from best-model, a nonzero status from apply),
\* the only thing the run still does is release the session: no further
\* generate, apply or best-model call is made (so the failed call is not
\* retried), the exception stays in flight until it reaches the caller, and
\* the helper never returns a (model, min_metric, round) result.
C12_FailureAborts ==
    /\ [](BoostFailed => pc \in {"close", "raised"})
    /\ [][BoostFailed =>
            /\ pc = "close"
            /\ pc' = "raised"
            /\ engine'.last_call = "FreeTraining"
            /\ engine'.n_generate = engine.n_generate
            /\ engine'.n_apply = engine.n_apply
            /\ engine'.n_get_best = engine.n_get_best
            /\ exception' = exception
            /\ retval' = retval]_vars

\* An apply call failed with rounds still to run, and the caller got the
\* exception after the session was released.
C12_Witness ==
    /\ args.proc = "boost"
    /\ pc = "raised"
    /\ exception = "Exception"
    /\ engine.last_call = "FreeTraining"
    /\ engine.n_apply >= 2
    /\ boost.range_pos < args.data_n_episodes

OpenFailed == pc = "raised" /\ engine.handle = "unallocated"

\* C13: a session opened with a model_type other than regression and
\* classification, or with a feature of an unknown type, fails with
\* AttributeError (InvalidArgument) and no engine init call is made; an init
\* call that returns a null handle fails with MemoryError
\* (AllocationFailure).  In every failed open the constructor's caller gets
\* no session (control is at the raise and nothing runs after it), the init
\* call is the only engine call there may have been, and no free call is
\* made.
C13_FailedOpen ==
    /\ (pc # "new_training" /\ pc # "new_interaction"
          /\ (args.model_type \notin {"regression", "classification"}
                \/ \E k \in 1..Len(args.features) :
                      args.features[k].type
                          \notin {"categorical", "continuous"})) =>
          /\ pc = "raised"
          /\ exception = "AttributeError"
          /\ engine = Engine0
          /\ pointer = NoValue
    /\ pointer = "null" =>
          /\ pc = "raised"
          /\ exception = "MemoryError"
          /\ engine.n_init = 1
          /\ engine.last_call \in {"InitializeTraining",
                                   "InitializeInteraction"}
    /\ OpenFailed =>
          /\ exception \in {"AttributeError", "MemoryError"}
          /\ engine.n_free = 0
          /\ engine.n_generate + engine.n_apply + engine.n_get_best
               + engine.n_get_current + engine.n_score = 0
          /\ retval = NoValue

\* An interaction session refused for its model_type.
C13_Witness ==
    /\ OpenFailed
    /\ args.kind = "interaction"
    /\ args.model_type = "multilabel"
    /\ args.features = FeaturesA
    /\ exception = "AttributeError"
    /\ engine.n_init = 0

\* The generate/apply iterations a training step makes.
StepEpisodes ==
    IF args.model_type = "classification" /\ args.n_classes <= 1
    THEN 0 ELSE args.training_step_episodes
NCombinations == Len(args.feature_combinations)
\* The engine's generate and apply calls so far follow the cyclic order:
\* call 2j+1 is a generate for combination (j div episodes) mod n, call 2j+2
\* the apply for the same combination with the tensor that generate returned.
CyclicTrace(episodes) ==
    \A k \in 1..Len(engine.calls) :
        LET c == engine.calls[k]
        IN  IF k % 2 = 1
            THEN /\ c.call = "generate"
                 /\ c.index = (((k - 1) \div 2) \div episodes) % NCombinations
                 /\ c.tensor = 0 => k = Len(engine.calls)
            ELSE /\ c.call = "apply"
                 /\ c.index = engine.calls[k - 1].index
                 /\ c.tensor = engine.calls[k - 1].tensor
                 /\ c.tensor # 0
\* The steps and the calls made when control is between two steps.
CyclicCount(episodes) ==
    /\ pc = "after_step" =>
          /\ ts.feature_combination_index = boost.feature_combination_index
          /\ Len(engine.calls) =
                2 * episodes * (NCombinations * boost.episode_index
                                  + boost.feature_combination_index + 1)
    /\ pc = "stop_check" =>
          /\ boost.feature_combination_index = NCombinations
          /\ Len(engine.calls) =
                2 * episodes * NCombinations * (boost.episode_index + 1)

\* C14 as stated: every visited combination gets training_step_episodes
\* generate/apply iterations, in cyclic order, in every boosting run.
C14_Original ==
    args.proc = "boost" =>
        /\ CyclicTrace(args.training_step_episodes)
        /\ CyclicCount(args.training_step_episodes)

\* C14: in every executed round cyclic_gradient_boost calls training_step
\* for every combination once, in increasing index order; the step makes
\* training_step_episodes iterations (none for classification with
\* n_classes <= 1); in each iteration a generate call for that combination
\* is immediately followed by an apply call for the same combination index
\* with exactly the tensor pointer the generate call returned; apply is
\* never called without a preceding successful generate and never with a
\* null tensor.
C14_CyclicOrder ==
    args.proc = "boost" =>
        /\ CyclicTrace(StepEpisodes)
        /\ CyclicCount(StepEpisodes)

\* The second round of a run with two combinations and two episodes a step
\* has been completed.
C14_Witness ==
    /\ args.proc = "boost"
    /\ pc = "stop_check"
    /\ boost.episode_index = 1
    /\ NCombinations = 2
    /\ args.training_step_episodes = 2
    /\ Len(engine.calls) = 16

\* C15: get_interactions calls GetInteractionScore once per candidate, in
\* input order, and appends each returned score paired with the candidate
\* it was computed for; when a score call returns a nonzero status the
\* exception propagates, no later candidate is scored and no ranking is
\* returned.
C15_ScoreEachOnceInOrder ==
    args.proc = "interactions" =>
        LET candidates == args.iter_feature_combinations
            scored == engine.scored
            pairs == inter.interaction_scores
            failed == \E k \in 1..Len(scored) : scored[k].return_code # 0
        IN  /\ Len(scored) <= Len(candidates)
            /\ \A k \in 1..Len(scored) :
                  /\ scored[k].candidate = candidates[k]
                  /\ scored[k].return_code # 0 => k = Len(scored)
            /\ Len(pairs) <= Len(scored)
            /\ Len(pairs) >= Len(scored) - 1
            /\ \A k \in 1..Len(pairs) :
                  /\ scored[k].return_code = 0
                  /\ pairs[k] = <<scored[k].candidate, scored[k].score>>
            /\ pc \in {"rank", "done"} =>
                  /\ Len(scored) = Len(candidates)
                  /\ Len(pairs) = Len(candidates)
            /\ failed =>
                  /\ exception = "Exception"
                  /\ pc \in {"close", "raised"}
                  /\ Len(pairs) = Len(scored) - 1

\* Three candidates were scored 1, 9 and 5 and the ranking was returned.
C15_Witness ==
    /\ RankingReturned
    /\ Len(engine.scored) = 3
    /\ inter.interaction_scores = <<<<AllCandidates[1], 1>>,
                                    <<AllCandidates[2], 9>>,
                                    <<AllCandidates[3], 5>>>>

\* C16: the failure kinds follow the engine's signal.  A null tensor from
\* the generate, best-model or current-model call raises MemoryError
\* (AllocationFailure); a nonzero status from the apply or the interaction
\* score call raises Exception (EngineFailure), which is neither MemoryError
\* nor AttributeError; and when the apply call fails, whatever is in the
\* metric slot is neither returned by training_step nor folded into
\* min_metric, then or later.
C16_FailureKinds ==
    [][/\ (engine'.n_generate # engine.n_generate
             /\ engine'.answer = "null") => exception' = "MemoryError"
       /\ ((engine'.n_get_best # engine.n_get_best
              \/ engine'.n_get_current # engine.n_get_current)
             /\ engine'.answer = "null") => exception' = "MemoryError"
       /\ (engine'.n_apply # engine.n_apply
             /\ engine'.answer = "nonzero") =>
               /\ exception' = "Exception"
               /\ retval' = retval
               /\ boost' = boost
               /\ pc' \in {"close", "idle"}
       /\ (engine'.n_score # engine.n_score
             /\ engine'.answer = "nonzero") =>
               /\ exception' = "Exception"
               /\ retval' = retval
       /\ (args.proc = "boost" /\ exception = "Exception") =>
               /\ boost'.min_metric = boost.min_metric
               /\ retval' = retval]_vars

\* A failed apply call left a metric below min_metric in the slot, and the
\* run ended with the exception and min_metric as it was.
C16_Witness ==
    /\ args.proc = "boost"
    /\ pc = "raised"
    /\ exception = "Exception"
    /\ engine.calls[Len(engine.calls)].call = "apply"
    /\ ts.metric_output < boost.min_metric
    /\ boost.min_metric < Inf

NativeLogStep == logged'.n # logged.n

\* C17: native_log never lets a failure escape.  For every trace level and
\* every message (a null or undecodable one included) and whether or not
\* the log handler fails, the callback returns to the engine and the call
\* in flight goes on as if nothing had happened.  A message that can be
\* decoded goes to log.error, log.warning, log.info or log.debug for the
\* levels error, warning, info and verbose, with its text unchanged; at
\* level off or an unknown level, and when it cannot be decoded, nothing is
\* logged.
C17_LogCallbackContained ==
    [][NativeLogStep =>
         LET l == logged'
             decodable == /\ ~l.message.is_null
                          /\ \A k \in 1..Len(l.message.bytes) :
                                l.message.bytes[k] < 128
         IN  /\ l.escaped = "none"
             /\ pc' = pc
             /\ ret' = ret
             /\ exception' = exception
             /\ engine' = engine
             /\ (decodable /\ l.trace_level = 1) => l.method = "error"
             /\ (decodable /\ l.trace_level = 2) => l.method = "warning"
             /\ (decodable /\ l.trace_level = 3) => l.method = "info"
             /\ (decodable /\ l.trace_level = 4) => l.method = "debug"
             /\ l.method # "none" => l.text = l.message.bytes
             /\ l.trace_level \notin 1..4 => l.method = "none"
             /\ ~decodable => l.method = "none"]_vars

\* A boosting run that returned its result although the engine's last
\* message could not be decoded.
C17_Witness ==
    /\ args.proc = "boost"
    /\ pc = "done"
    /\ logged.n = MaxLogCalls
    /\ logged.raised = "UnicodeDecodeError"
    /\ logged.trace_level = 1

\* Every array of a returned model still reads what the engine's memory
\* held when the array was made.
Unchanged(model, handed_out) ==
    \A k \in 1..Len(model) :
        model[k].kind = "ndarray" =>
            ArrayValue(model[k], engine) = handed_out[k]

\* C18: the tensors get_best_model and get_current_model return are owned
\* copies: whatever the engine does afterwards to the memory it handed out
\* (further generate/apply calls, the free call), every tensor returned
\* earlier still holds what it held when the extraction call returned.
C18_OwnedCopies ==
    args.proc = "session" =>
        /\ Unchanged(client.model, client.handed_out)
        /\ (pc = "idle" /\ exception = "none"
              /\ client.op \in {"get_best_model", "get_current_model"}) =>
                 Unchanged(retval, gm.handed_out)

\* The caller holds a best-model tensor, and a later training step has
\* changed the engine's best model.
C18_Witness ==
    /\ args.proc = "session"
    /\ pc = "idle"
    /\ client.op = "training_step"
    /\ engine.handle = "live"
    /\ Len(client.model) >= 1
    /\ client.model[1].kind = "ndarray"
    /\ client.model[1].c_pointer.which = "best"
    /\ Region(engine, client.model[1].c_pointer) # client.handed_out[1]

BoostReturned == pc = "done" /\ args.proc = "boost"
\* The metric the engine wrote at its k-th apply call.
WrittenAt(k) == engine_metrics[((k - 1) % Len(engine_metrics)) + 1]
\* The metric the s-th training step of the run (from 0) returned: what its
\* last apply call wrote, 0.0 when it made none.
StepMetric(s) ==
    IF StepEpisodes = 0 THEN 0 ELSE WrittenAt((s + 1) * StepEpisodes)
StepsExecuted == NCombinations * Len(rounds)
MinimumOfSteps ==
    LET metrics == {StepMetric(s) : s \in 0..(StepsExecuted - 1)}
    IN  IF metrics = {} THEN Inf
        ELSE CHOOSE m \in metrics : \A x \in metrics : m <= x

\* C19: the min_metric cyclic_gradient_boost returns is the minimum, over
\* all training steps of all executed rounds, of the metric the step
\* returned (the one its last apply call wrote; earlier episodes of the
\* step do not count); it is +infinity when no step was executed; and the
\* running value never increases.
C19_MinOverSteps ==
    /\ [](BoostReturned =>
            /\ retval.min_metric = MinimumOfSteps
            /\ StepsExecuted = 0 => retval.min_metric = Inf)
    /\ [][args.proc = "boost" => boost'.min_metric <= boost.min_metric]_vars

\* A run of one step of two episodes: the first apply wrote 0.994, the
\* second 1.0, and 1.0 is returned.
C19_Witness ==
    /\ BoostReturned
    /\ StepsExecuted = 1
    /\ engine.n_apply = 2
    /\ WrittenAt(1) = 994
    /\ retval.min_metric = 1000

\* C20: the round value cyclic_gradient_boost returns is the zero-based
\* index of the last round executed: r when the loop breaks at the end of
\* round r, data_n_episodes - 1 when all rounds run; when no round runs
\* (data_n_episodes = 0) it is 0, as it is after stopping at the end of
\* round 0, so it is not the number of rounds executed.
C20_ReturnedRound ==
    BoostReturned =>
        LET n_rounds == Len(rounds)
            returned == retval.episode_index
        IN  /\ n_rounds = 0 <=> args.data_n_episodes <= 0
            /\ n_rounds = 0 => returned = 0
            /\ n_rounds >= 1 =>
                  /\ returned = n_rounds - 1
                  /\ returned # n_rounds
                  /\ rounds[n_rounds].broke \/ n_rounds = args.data_n_episodes
                  /\ ~rounds[n_rounds].broke =>
                        returned = args.data_n_episodes - 1
                  /\ \A k \in 1..(n_rounds - 1) : ~rounds[k].broke

\* Early stopping broke the loop at the end of round 1 of 4, and 1 was
\* returned after two rounds.
C20_Witness ==
    /\ BoostReturned
    /\ args.data_n_episodes = 4
    /\ Len(rounds) = 2
    /\ rounds[2].broke
    /\ retval.episode_index = 1

\* C21: with early_stopping_tolerance >= 0, a round of
\* cyclic_gradient_boost that begins with the stall counter at 0 ends with
\* the counter at exactly 1, whatever the metrics are; hence the counter is
\* never 0 at the end of two consecutive rounds, it is 1 at the end of
\* round 0, and with early_stopping_run_length 0 or 1 the loop stops at the
\* end of round index 0.
C21_ZeroThenOne ==
    (args.proc = "boost" /\ args.early_stopping_tolerance >= 0) =>
        /\ \A k \in 1..Len(rounds) :
              rounds[k].stall_begin = 0 => rounds[k].stall = 1
        /\ \A k \in 2..Len(rounds) :
              ~(rounds[k - 1].stall = 0 /\ rounds[k].stall = 0)
        /\ Len(rounds) >= 1 =>
              /\ rounds[1].episode_index = 0
              /\ rounds[1].stall = 1
        /\ args.early_stopping_run_length \in {0, 1} =>
              /\ Len(rounds) <= 1
              /\ Len(rounds) = 1 => rounds[1].broke
              /\ (pc = "done" /\ args.data_n_episodes >= 1) =>
                     (Len(rounds) = 1 /\ retval.episode_index = 0)

\* A third round began with the counter at 0 after an improvement and
\* ended with it at 1.
C21_Witness ==
    /\ args.proc = "boost"
    /\ args.early_stopping_tolerance >= 0
    /\ Len(rounds) >= 3
    /\ rounds[2].stall = 0
    /\ rounds[3].stall_begin = 0
    /\ rounds[3].min_metric < rounds[2].min_metric
    /\ rounds[3].stall = 1

\* A step in which training_step returns to its caller.
TrainingStepReturns ==
    /\ pc = "ts_loop"
    /\ pc' \notin {"ts_loop", "ts_apply"}
    /\ exception' = "none"
\* The run's training steps make no apply call.
NoApplyRun ==
    \/ args.training_step_episodes = 0
    \/ args.model_type = "classification" /\ args.n_classes <= 1

\* C22: training_step returns the validation metric its last apply call
\* wrote, and exactly 0.0 when it makes no apply call, which is the case
\* when training_step_episodes is 0 and for classification with
\* n_classes <= 1; cyclic_gradient_boost folds that 0.0 into the running
\* minimum, so min_metric is at most 0.0 from the first such step on.
C22_StepMetric ==
    /\ [][(args.proc = "boost" /\ TrainingStepReturns) =>
            /\ ts.n_apply = 0 <=> NoApplyRun
            /\ ts.n_apply = 0 => retval' = 0
            /\ ts.n_apply > 0 =>
                  /\ engine.calls[Len(engine.calls)].call = "apply"
                  /\ retval' = WrittenAt(engine.n_apply)]_vars
    /\ [][(args.proc = "boost" /\ pc = "after_step") =>
            /\ boost'.min_metric <= retval
            /\ boost'.min_metric <= boost.min_metric
            /\ boost'.min_metric \in {retval, boost.min_metric}]_vars
    /\ []((args.proc = "boost" /\ NoApplyRun
             /\ (Len(rounds) >= 1 \/ pc = "stop_check"
                   \/ (pc = "combo" /\ boost.feature_combination_index >= 1))
             /\ NCombinations >= 1) =>
                boost.min_metric <= 0)

\* A regression run with training_step_episodes = 0 has folded the 0.0 of
\* its first step into min_metric.
C22_Witness ==
    /\ args.proc = "boost"
    /\ args.model_type = "regression"
    /\ args.training_step_episodes = 0
    /\ pc = "combo"
    /\ boost.feature_combination_index = 1
    /\ Len(rounds) = 0
    /\ engine.n_apply = 0
    /\ boost.min_metric = 0

\* C23: on every successful run of cyclic_gradient_boost (all rounds run,
\* early-stopping break, or zero rounds) the best model is extracted after
\* the last generate/apply call and before the session is released; the
\* returned list has one entry per feature combination, in combination
\* index order, and outside the degenerate case each entry comes from its
\* own GetBestModelFeatureCombination call, one per combination.
C23_BestModelLast ==
    /\ [](BoostReturned =>
            LET model == retval.model_update
                degenerate == /\ args.model_type = "classification"
                              /\ args.n_classes <= 1
            IN  /\ Len(model) = NCombinations
                /\ engine.n_free = 1
                /\ engine.last_call = "FreeTraining"
                /\ engine.n_get_current = 0
                /\ IF degenerate
                   THEN /\ engine.got = <<>>
                        /\ \A k \in 1..Len(model) : model[k].kind = "None"
                   ELSE /\ engine.got = [k \in 1..NCombinations |->
                                           [which |-> "best", index |-> k - 1]]
                        /\ \A k \in 1..Len(model) :
                              /\ model[k].kind = "ndarray"
                              /\ model[k].combination = k - 1
                              /\ model[k].c_pointer.which = "best")
    /\ [][args.proc = "boost" =>
            /\ engine'.got # engine.got =>
                  (engine.handle = "live" /\ engine.n_free = 0)
            /\ (engine'.n_generate # engine.n_generate
                  \/ engine'.n_apply # engine.n_apply) => engine.got = <<>>
            /\ (engine'.n_free # engine.n_free /\ exception = "none") =>
                  /\ Len(gm.model) = NCombinations
                  /\ Len(engine.got) \in {0, NCombinations}]_vars

\* A run of two combinations that early stopping broke after its second
\* round returned a two-entry best model.
C23_Witness ==
    /\ BoostReturned
    /\ NCombinations = 2
    /\ Len(rounds) = 2
    /\ rounds[2].broke
    /\ args.data_n_episodes > 2
    /\ engine.n_get_best = 2
    /\ engine.n_apply >= 4

\* ---------------------------------------------------------------------
\* The process-wide engine instance: Native.get_native_singleton
\* ---------------------------------------------------------------------

\* How many sequential get_native_singleton calls a behaviour makes.
MaxSingletonCalls == 3

\* log_level arguments: "None" is the default, the others are logging
\* levels by number or by name; "5" and "TRACE" are levels that
\* level_dict does not know.
LogLevels == {"None", "10", "WARNING", "5", "TRACE"}

\* What logging.getLogger("interpret").getEffectiveLevel() can answer.
EffectiveLevels == {"30", "5"}

\* What loading the shared library and resolving its symbols can do.
LoadOutcomes == {"ok", "OSError", "AttributeError"}

\* level_dict of _set_logging.
LevelDict ==
    [level \in {"10", "20", "30", "40", "50", "0", "DEBUG", "INFO",
                "WARNING", "ERROR", "CRITICAL", "NOTSET"} |->
        CASE level \in {"10", "DEBUG"} -> TraceLevelVerbose
          [] level \in {"20", "INFO"} -> TraceLevelInfo
          [] level \in {"30", "WARNING"} -> TraceLevelWarning
          [] level \in {"40", "50", "ERROR", "CRITICAL"} -> TraceLevelError
          [] OTHER -> TraceLevelOff]

\* _set_logging: the callback object is created and put into self, handed
\* to the engine, and only then is the level looked up in level_dict.
SetLogging(n, self, level, effective) ==
    LET lvl == IF level = "None" THEN effective ELSE level
        registered == [n EXCEPT !.n_register = @ + 1, !.callback = self]
    IN  IF lvl \in DOMAIN LevelDict
        THEN [registered EXCEPT !.trace_level = LevelDict[lvl]]
        ELSE [registered EXCEPT !.raised = "KeyError"]

\* _initialize: load the library, resolve the signatures, set up logging.
Initialize(n, self, log_level, effective, load) ==
    CASE load = "OSError" -> [n EXCEPT !.raised = "OSError"]
      [] load = "AttributeError" ->
            [n EXCEPT !.n_load = @ + 1, !.raised = "AttributeError"]
      [] OTHER -> SetLogging([n EXCEPT !.n_load = @ + 1], self, log_level,
                             effective)

\* A faulty variant: every call initialises again.
NeedsInitializeAlways(instance) == TRUE

\* if Native._native is None
NeedsInitialize(instance) == instance = 0

\* One get_native_singleton call.  The instance is stored only after
\* _initialize returned; when it raised, the local instance is dropped and
\* nothing references it or its callback object any more.
GetNativeSingletonCall(n, is_debug, log_level, effective, load) ==
    LET called == [n EXCEPT !.n_calls = @ + 1, !.raised = "none",
                            !.returned = 0, !.arg_is_debug = is_debug,
                            !.arg_log_level = log_level]
        self == called.n_calls
    IN  IF NeedsInitialize(n.instance)
        THEN LET done == Initialize(called, self, log_level, effective, load)
             IN  IF done.raised = "none"
                 THEN [done EXCEPT !.instance = self, !.n_stored = @ + 1,
                                   !.referenced = @ \cup {self},
                                   !.is_debug = is_debug,
                                   !.log_level = log_level,
                                   !.returned = self]
                 ELSE done
        ELSE [called EXCEPT !.returned = n.instance]

GetNativeSingleton ==
    /\ args.proc = "singleton"
    /\ native.n_calls < MaxSingletonCalls
    /\ \E is_debug \in BOOLEAN, log_level \in LogLevels,
          effective \in EffectiveLevels, load \in LoadOutcomes :
          native' = GetNativeSingletonCall(native, is_debug, log_level,
                                           effective, load)
    /\ UNCHANGED <<pc, ret, args, engine_metrics, pointer, engine, boost, ts,
                   gm, inter, exception, retval, rounds, client, logged>>

\* A process that only asks for the instance, some number of times.
InitSingleton ==
    Start([proc |-> "singleton"], ScenarioScript, "idle", "idle", 0)

NextSingleton == GetNativeSingleton

SpecSingleton == InitSingleton /\ [][NextSingleton]_vars

\* C24: over any sequence of get_native_singleton calls at most one
\* initialisation succeeds and is stored; from then on every call returns
\* the stored instance without loading, registering or changing anything
\* of it, whatever its arguments; a call that raises stores nothing and the
\* next call initialises again; and while an instance is stored the
\* callback the engine holds is that instance's own, still referenced.
C24_SingletonOnce ==
    /\ [](/\ native.n_stored <= 1
          /\ native.instance # 0 =>
                /\ native.n_stored = 1
                /\ native.callback = native.instance
                /\ native.instance \in native.referenced)
    /\ [][native'.n_calls # native.n_calls =>
            IF native.instance # 0
            THEN /\ native'.returned = native.instance
                 /\ native'.raised = "none"
                 /\ native'.instance = native.instance
                 /\ native'.n_load = native.n_load
                 /\ native'.n_register = native.n_register
                 /\ native'.callback = native.callback
                 /\ native'.referenced = native.referenced
                 /\ native'.is_debug = native.is_debug
                 /\ native'.log_level = native.log_level
                 /\ native'.trace_level = native.trace_level
            ELSE IF native'.raised = "none"
                 THEN /\ native'.instance = native'.n_calls
                      /\ native'.returned = native'.instance
                      /\ native'.n_load = native.n_load + 1
                      /\ native'.n_register = native.n_register + 1
                      /\ native'.is_debug = native'.arg_is_debug
                      /\ native'.log_level = native'.arg_log_level
                 ELSE /\ native'.instance = 0
                      /\ native'.returned = 0
                      /\ native'.n_stored = 0]_vars

\* A first call failed after registering its callback, a second call
\* initialised and stored the instance, and a third call with other
\* arguments got the stored instance back.
C24_Witness ==
    /\ native.n_calls = 3
    /\ native.instance = 2
    /\ native.returned = 2
    /\ native.n_load = 2
    /\ native.n_register = 2
    /\ native.arg_is_debug # native.is_debug
    /\ native.arg_log_level # native.log_level

\* C25: for a negative n_interactions get_interactions raises nothing and
\* returns the first max(0, number of candidates + n) entries of the
\* descending ranking, that is, all but the |n| lowest-scored candidates:
\* the returned pairs are the head of the stable descending order of the
\* computed pairs, no omitted candidate scores strictly higher than a
\* returned one, and the result is non-empty whenever there are more than
\* |n| candidates (so its length is not min(n, number of candidates)).
C25_NegativeCount ==
    (RankingReturned /\ args.n_interactions < 0) =>
        LET computed == inter.interaction_scores
            ranking == SortedDesc(computed)
            idx == retval.final_indices
            sc == retval.final_scores
            n == args.n_interactions
            m == Max2(0, Len(args.iter_feature_combinations) + n)
        IN  /\ exception = "none"
            /\ Len(computed) = Len(args.iter_feature_combinations)
            /\ Len(idx) = m
            /\ Len(sc) = m
            /\ \A k \in 1..m : <<idx[k], sc[k]>> = ranking[k]
            /\ \A k \in 1..m : \A j \in (m + 1)..Len(ranking) :
                  ranking[j][2] <= sc[k]
            /\ Len(args.iter_feature_combinations) > -n => m > 0
            /\ m # Min2(n, Len(args.iter_feature_combinations))

\* Five candidates and n = -2: the three best are returned, the two
\* lowest-scored are dropped.
C25_Witness ==
    /\ RankingReturned
    /\ args.n_interactions = -2
    /\ Scores(inter.interaction_scores) = <<2, 9, 1, 5, 9>>
    /\ retval.final_scores = <<9, 9, 5>>
    /\ retval.final_indices = <<args.iter_feature_combinations[2],
                                args.iter_feature_combinations[5],
                                args.iter_feature_combinations[4]>>

\* ---------------------------------------------------------------------
\* The C form of the feature combinations
\* ---------------------------------------------------------------------

\* How many combinations a converted list has, and how many features a
\* combination has, at most.
MaxConvertCombos == 2
MaxAttributes == 2

\* The feature indices the combinations are drawn from.
ConvertIndices == {0, 1, 2}

AttributeLists ==
    UNION {[1..d -> ConvertIndices] : d \in 0..MaxAttributes}

CombinationLists ==
    UNION {[1..n -> {Combination(a) : a \in AttributeLists}] :
              n \in 0..MaxConvertCombos}

\* A faulty variant: the features of a combination are taken back to front.
RECURSIVE ExtendIndexesReversed(_, _)
ExtendIndexesReversed(feature_combination_indexes, features_in_combination) ==
    IF features_in_combination = <<>> THEN feature_combination_indexes
    ELSE ExtendIndexesReversed(
             Append(feature_combination_indexes,
                    features_in_combination[Len(features_in_combination)]),
             SubSeq(features_in_combination, 1,
                    Len(features_in_combination) - 1))

\* for feature_idx in features_in_combination:
\*     feature_combination_indexes.append(feature_idx)
RECURSIVE ExtendIndexes(_, _)
ExtendIndexes(feature_combination_indexes, features_in_combination) ==
    IF features_in_combination = <<>> THEN feature_combination_indexes
    ELSE ExtendIndexes(Append(feature_combination_indexes,
                              Head(features_in_combination)),
                       Tail(features_in_combination))

\* The loop over enumerate(feature_combinations), from position idx on,
\* with the records and the index list built so far.
RECURSIVE ConvertLoop(_, _, _, _)
ConvertLoop(feature_combinations, idx, feature_combinations_ar, feature_combination_indexes) ==
    IF idx >= Len(feature_combinations)
    THEN [feature_combinations_ar |-> feature_combinations_ar,
          feature_combination_indexes |-> feature_combination_indexes]
    ELSE LET features_in_combination ==
                 feature_combinations[idx + 1].attributes
         IN  ConvertLoop(
                 feature_combinations, idx + 1,
                 [feature_combinations_ar EXCEPT ![idx + 1] =
                     [countFeaturesInCombination |->
                         Len(features_in_combination)]],
                 ExtendIndexes(feature_combination_indexes,
                               features_in_combination))

\* convert_feature_combinations_to_c: an array of len(feature_combinations)
\* zeroed records, filled by the loop, and the flat list of the indices (as
\* an array of c_longlong, which holds every feature index unchanged).
ConvertFeatureCombinationsToC(feature_combinations) ==
    ConvertLoop(feature_combinations, 0,
                [k \in 1..Len(feature_combinations) |->
                    [countFeaturesInCombination |-> 0]],
                <<>>)

ConvertFeatureCombinations ==
    /\ pc = "convert"
    /\ retval' = ConvertFeatureCombinationsToC(args.feature_combinations)
    /\ pc' = "done"
    /\ UNCHANGED <<ret, args, engine_metrics, native, logged, pointer, engine,
                   boost, ts, gm, inter, exception, rounds, client>>

\* The conversion applied to every list of combinations.
InitConvert ==
    \E feature_combinations \in CombinationLists :
        Start([proc |-> "convert",
               feature_combinations |-> feature_combinations],
              ScenarioScript, "convert", "done", 0)

NextConvert == ConvertFeatureCombinations

SpecConvert == InitConvert /\ [][NextConvert]_vars

Converted == pc = "done" /\ args.proc = "convert"

RECURSIVE SumOf(_)
SumOf(s) == IF s = <<>> THEN 0 ELSE Head(s) + SumOf(Tail(s))

\* The flat array cut into consecutive pieces of the given sizes.
RECURSIVE SplitByCounts(_, _)
SplitByCounts(flat, counts) ==
    IF counts = <<>> THEN <<>>
    ELSE <<SubSeq(flat, 1, Head(counts))>>
         \o SplitByCounts(SubSeq(flat, Head(counts) + 1, Len(flat)),
                          Tail(counts))

\* C26: convert_feature_combinations_to_c loses nothing: there is one
\* record per combination and the i-th record's count is the size of the
\* i-th combination; the flat index array holds the combinations' feature
\* indices one combination after the other, each in its own order; its
\* length is the sum of the counts; and cutting it by the counts gives the
\* original combinations back.
C26_ConvertLossless ==
    Converted =>
        LET fcs == args.feature_combinations
            ar == retval.feature_combinations_ar
            flat == retval.feature_combination_indexes
            counts == [i \in 1..Len(ar) |-> ar[i].countFeaturesInCombination]
            offset(i) == SumOf([k \in 1..(i - 1) |-> Len(fcs[k].attributes)])
        IN  /\ Len(ar) = Len(fcs)
            /\ \A i \in 1..Len(fcs) : counts[i] = Len(fcs[i].attributes)
            /\ Len(flat) = SumOf(counts)
            /\ \A i \in 1..Len(fcs) :
                  \A j \in 1..Len(fcs[i].attributes) :
                     flat[offset(i) + j] = fcs[i].attributes[j]
            /\ SplitByCounts(flat, counts) =
                  [i \in 1..Len(fcs) |-> fcs[i].attributes]

\* Two combinations of different sizes whose indices are not in increasing
\* order, converted.
C26_Witness ==
    /\ Converted
    /\ args.feature_combinations = <<Combination(<<2, 0>>), Combination(<<1>>)>>
    /\ retval.feature_combination_indexes = <<2, 0, 1>>
    /\ retval.feature_combinations_ar = <<[countFeaturesInCombination |-> 2],
                                          [countFeaturesInCombination |-> 1]>>
====
